---- MODULE Spec2Model ----
(***************************************************************************)
(* A model of my_bot_name: the configuration resolver (__init__.py), the   *)
(* typed configuration views (configurations.py) and the two cloud         *)
(* connectors (connectors/gcp/storage.py, connectors/gcp/bigquery.py).     *)
(***************************************************************************)
EXTENDS Integers, Sequences, FiniteSets, TLC

VARIABLES
    \* ---- configuration resolver and typed views
    argv,           \* sys.argv[1:], a sequence of tokens
    environ,        \* os.environ restricted to ENVIRONMENT: <<>> or <<value>>
    environment,    \* module global `environment` (__init__.py:110)
    defaultFile,    \* the state of resources/config/default.yml when it was read
    envFile,        \* the state of resources/config/<environment>.yml when read
    config,         \* module global `config` (__init__.py:111), an outcome
    API_CONFIG,     \* configurations.py:28, an outcome
    GCP_CONFIG,     \* configurations.py:29, an outcome
    pcCfg,          \* how far the import of the package has got
    \* ---- the managed services and one connector call at a time
    bucket,         \* the object store: object name -> stored bytes
    publicBlobs,    \* the objects made publicly readable
    tables,         \* the warehouse: table id -> rows
    call,           \* the connector call in progress or last made
    \* ---- one folder download into a fresh local directory
    gcs_folder,     \* the remote prefix
    localFs,        \* the local file system
    folderMode,     \* which variant was called: "none", "sync" or "async"
    pcFolder,       \* where download_folder_async is
    folderOut,      \* what the folder download returned or raised
    blobs,          \* the listing download_folder_async got
    tasks,          \* its _download_and_save tasks
    gather,         \* the future of asyncio.gather
    failed          \* the tasks that failed, in the order they failed

cfgVars == <<argv, environ, environment, defaultFile, envFile, config,
             API_CONFIG, GCP_CONFIG, pcCfg>>

\* The variables of the connectors, left alone by the import.
svcVars == <<bucket, publicBlobs, tables, call>>

folderVars == <<gcs_folder, localFs, folderMode, pcFolder, folderOut, blobs, tasks,
                gather, failed>>

otherVars == <<svcVars, folderVars>>

vars == <<cfgVars, otherVars>>


---------------------------------------------------------------------------
(* Python values.  Every value is a record of one shape so that values of  *)
(* different Python types can be compared: kind is the Python type, leaf   *)
(* the literal of a scalar, items the key -> value mapping of a dict.      *)

NoItems == [k \in {} |-> 0]

Leaf(t, v) == [kind |-> t, leaf |-> v, items |-> NoItems]

Dict(f) == [kind |-> "dict", leaf |-> "", items |-> f]

None == Leaf("none", "")

EmptyDict == Dict(NoItems)

IsDict(v) == v.kind = "dict"

Keys(d) == DOMAIN d.items

\* Python truthiness of a value (used by `configmap if configmap else {}`).
Truthy(v) ==
    CASE v.kind = "none" -> FALSE
      [] v.kind = "dict" -> Keys(v) # {}
      [] v.kind = "str" -> v.leaf # ""
      [] v.kind = "int" -> v.leaf # "0"
      [] v.kind = "float" -> v.leaf # "0.0"
      [] v.kind = "bool" -> v.leaf = "true"
      [] OTHER -> TRUE

\* The outcome of a call: a returned value, or a raised exception.
Ret(v) == [ok |-> TRUE, val |-> v, err |-> ""]

Raise(e) == [ok |-> FALSE, val |-> None, err |-> e]

NotRun == [ok |-> FALSE, val |-> None, err |-> "not run"]

---------------------------------------------------------------------------
(* _get_env (__init__.py:81-92): argparse with one optional argument       *)
(* -e/--environment whose default is os.environ.get("ENVIRONMENT","local") *)
(* and parse_known_args, which leaves unknown arguments alone.             *)

MaxArgs == 3

\* The option strings that select -e/--environment: the two declared ones
\* and an unambiguous abbreviation of the long one (argparse allow_abbrev).
FlagStrings == {"-e", "--environment", "--env"}

\* Tokens argparse classifies as options ('O'): they start with '-'.
OptionLike == FlagStrings \cup {"-v"}

FlagValues == {"x", "y"}

Tokens == OptionLike \cup FlagValues

VariableValues == {"y", "z"}

\* os.environ.get("ENVIRONMENT", "local")
EnvironGet(env, dflt) == IF Len(env) = 0 THEN dflt ELSE env[1]

\* parse_known_args over args[i..], cur the namespace's `environment` so far.
\* An option that takes one argument must be followed by a non-option token,
\* otherwise argparse exits ("expected one argument"); later occurrences
\* overwrite earlier ones; everything else goes to the ignored extras.
RECURSIVE ParseKnownArgs(_, _, _)
ParseKnownArgs(args, i, cur) ==
    IF i > Len(args) THEN Ret(Leaf("str", cur))
    ELSE IF args[i] \in FlagStrings
         THEN IF i + 1 <= Len(args) /\ args[i + 1] \notin OptionLike
              THEN ParseKnownArgs(args, i + 2, args[i + 1])
              ELSE Raise("SystemExit")
         ELSE ParseKnownArgs(args, i + 1, cur)

\* A mutated resolver that lets the ENVIRONMENT variable override the flag.
_get_env_VariableFirst(args, env) ==
    IF Len(env) > 0 THEN Ret(Leaf("str", env[1]))
    ELSE ParseKnownArgs(args, 1, "local")

_get_env(args, env) == ParseKnownArgs(args, 1, EnvironGet(env, "local"))

---------------------------------------------------------------------------
(* _get_config_dict (__init__.py:73-78) and _deep_merge (__init__.py:95-107) *)

\* A configuration file on disk: missing, not valid YAML, or a parsed document.
Missing == [state |-> "missing", parsed |-> None]

Invalid == [state |-> "invalid", parsed |-> None]

Parsed(v) == [state |-> "ok", parsed |-> v]

\* A mutated loader without the `else {}` fallback for a falsy document.
_get_config_dict_NoFallback(file) ==
    CASE file.state = "missing" -> Raise("FileNotFoundError")
      [] file.state = "invalid" -> Raise("YAMLError")
      [] OTHER -> Ret(file.parsed)

\* open() raises when the file is missing; yaml.load raises on invalid YAML;
\* a falsy document (empty file, {}, "", 0, false) becomes {}.
_get_config_dict(file) ==
    CASE file.state = "missing" -> Raise("FileNotFoundError")
      [] file.state = "invalid" -> Raise("YAMLError")
      [] OTHER -> Ret(IF Truthy(file.parsed) THEN file.parsed ELSE EmptyDict)

\* The keys of dict2 on which line 103 holds: present in result and both
\* values dicts.  Line 104 then calls the undefined name `deep_merge`.
RecursiveKeys(dict1, dict2) ==
    {k \in Keys(dict2) : k \in Keys(dict1) /\ IsDict(dict1.items[k])
                                          /\ IsDict(dict2.items[k])}

_deep_merge(dict1, dict2) ==
    IF ~IsDict(dict1) THEN Raise("AttributeError")         \* dict1.copy()
    ELSE IF ~IsDict(dict2) THEN Raise("AttributeError")    \* dict2.items()
    ELSE IF RecursiveKeys(dict1, dict2) # {} THEN Raise("NameError")
    ELSE Ret(Dict([k \in Keys(dict1) \cup Keys(dict2) |->
                     IF k \in Keys(dict2) THEN dict2.items[k]
                     ELSE dict1.items[k]]))

\* __init__.py:111: the arguments are evaluated left to right, then merged.
resolve_config(dfile, efile) ==
    LET d == _get_config_dict(dfile)
        e == _get_config_dict(efile)
    IN  IF ~d.ok THEN d
        ELSE IF ~e.ok THEN e
        ELSE _deep_merge(d.val, e.val)

---------------------------------------------------------------------------
(* configurations.py: the frozen dataclasses ApiConfig and GCPConfig and   *)
(* their construction by keyword expansion of a configuration subsection.  *)

ApiConfigFields == {"host", "port", "reload"}

GCPConfigFields == {"project_id", "region", "temperature"}

\* The annotation of each field (configurations.py:12-14, 23-25).
FieldType ==
    [host |-> "str", port |-> "int", reload |-> "bool",
     project_id |-> "str", region |-> "str", temperature |-> "float"]

\* config[key]: KeyError when the key is absent.
Subscript(d, key) ==
    IF key \in Keys(d) THEN Ret(d.items[key]) ELSE Raise("KeyError")

\* A mutated constructor in which every field has a default, so that an
\* absent field is accepted.
DataclassInit_Defaults(fields, kwargs) ==
    IF ~IsDict(kwargs) THEN Raise("TypeError")
    ELSE IF ~(Keys(kwargs) \subseteq fields) THEN Raise("TypeError")
    ELSE Ret(Dict([f \in fields |->
                     IF f \in Keys(kwargs) THEN kwargs.items[f] ELSE None]))

\* Cls(**kwargs) of a dataclass without defaults: ** needs a mapping; the
\* generated __init__ takes exactly the declared fields as keywords and
\* stores each argument as it is (annotations are not enforced).
DataclassInit(fields, kwargs) ==
    IF ~IsDict(kwargs) THEN Raise("TypeError")
    ELSE IF Keys(kwargs) # fields THEN Raise("TypeError")
    ELSE Ret(Dict([f \in fields |-> kwargs.items[f]]))

\* Cls(**config[key])
BuildView(fields, cfg, key) ==
    LET sub == Subscript(cfg, key)
    IN  IF ~sub.ok THEN sub ELSE DataclassInit(fields, sub.val)

---------------------------------------------------------------------------
(* The configuration documents the model reads.                            *)

LeafValues == {Leaf("str", "abc"), Leaf("int", "8080")}

\* Every mapping from a subset of `keys` to the leaf values.
Sections(keys) ==
    {Dict(f) : f \in UNION {[S -> LeafValues] : S \in SUBSET keys}}

ApiSections == Sections(ApiConfigFields \cup {"debug"})

GcpSections ==
    {Dict([f \in GCPConfigFields |-> Leaf("str", "abc")]),
     Dict([f \in GCPConfigFields |->
             IF f = "temperature" THEN Leaf("float", "0.5")
             ELSE Leaf("str", "abc")]),
     Dict([f \in {"project_id"} |-> Leaf("str", "abc")])}

\* A document with the given top-level entries; a value of None is absent.
Document(api, gcp) ==
    Dict([k \in {x \in {"api_config", "gcp_config"} :
                   (IF x = "api_config" THEN api ELSE gcp) # None} |->
            IF k = "api_config" THEN api ELSE gcp])

Documents ==
    {Document(a, g) : a \in ApiSections \cup {None, Leaf("str", "abc")},
                      g \in GcpSections \cup {None}}

\* Documents that are not a non-empty mapping: empty file, "", and a scalar.
OddDocuments == {None, Leaf("str", ""), Leaf("str", "abc")}

DefaultFiles ==
    {Missing, Invalid} \cup {Parsed(d) : d \in Documents \cup OddDocuments}

OverrideDocuments ==
    {Document(a, g) :
        a \in {None, Leaf("int", "8080"),
               Dict([f \in {"port"} |-> Leaf("str", "abc")]),
               Dict([f \in ApiConfigFields |-> Leaf("int", "8080")])},
        g \in {None, Dict([f \in GCPConfigFields |-> Leaf("str", "abc")])}}

EnvironmentFiles ==
    {Missing, Invalid}
        \cup {Parsed(d) : d \in OverrideDocuments \cup OddDocuments}

---------------------------------------------------------------------------
(* Importing the package: __init__.py:110, __init__.py:111 and then        *)
(* configurations.py:28 and :29, each a module-level statement.            *)

\* All sequences over S of length at most n.
SeqUpTo(S, n) == UNION {[1..k -> S] : k \in 0..n}

EnvironStates == {<<>>} \cup {<<v>> : v \in VariableValues}

\* environment = _get_env()
GetEnv ==
    /\ pcCfg = "start"
    /\ environment' = _get_env(argv, environ)
    /\ pcCfg' = IF environment'.ok THEN "env" ELSE "exit"
    /\ UNCHANGED <<argv, environ, defaultFile, envFile, config,
                   API_CONFIG, GCP_CONFIG>>
    /\ UNCHANGED otherVars

\* config = _deep_merge(_get_config_dict("default"), _get_config_dict(environment))
\* The two files are whatever is on disk; with environment "default" both
\* reads are of the same file.
ResolveConfig ==
    /\ pcCfg = "env"
    /\ \E d \in DefaultFiles :
         \E e \in (IF environment.val.leaf = "default" THEN {d}
                   ELSE EnvironmentFiles) :
            /\ defaultFile' = d
            /\ envFile' = e
            /\ config' = resolve_config(d, e)
    /\ pcCfg' = IF config'.ok THEN "config" ELSE "failed"
    /\ UNCHANGED <<argv, environ, environment, API_CONFIG, GCP_CONFIG>>
    /\ UNCHANGED otherVars

\* API_CONFIG = ApiConfig(**config["api_config"])
BuildApiConfig ==
    /\ pcCfg = "config"
    /\ API_CONFIG' = BuildView(ApiConfigFields, config.val, "api_config")
    /\ pcCfg' = IF API_CONFIG'.ok THEN "api" ELSE "failed"
    /\ UNCHANGED <<argv, environ, environment, defaultFile, envFile, config,
                   GCP_CONFIG>>
    /\ UNCHANGED otherVars

\* GCP_CONFIG = GCPConfig(**config["gcp_config"])
BuildGcpConfig ==
    /\ pcCfg = "api"
    /\ GCP_CONFIG' = BuildView(GCPConfigFields, config.val, "gcp_config")
    /\ pcCfg' = IF GCP_CONFIG'.ok THEN "views" ELSE "failed"
    /\ UNCHANGED <<argv, environ, environment, defaultFile, envFile, config,
                   API_CONFIG>>
    /\ UNCHANGED otherVars

---------------------------------------------------------------------------
(* The connectors.  A connector call returns a value or raises; values are *)
(* tagged with their Python type and carry a sequence of strings' worth of *)
(* data so that results of different operations can be compared.           *)

Returned(type, data) ==
    [ok |-> TRUE, val |-> [type |-> type, data |-> data], err |-> ""]

Raised(e) ==
    [ok |-> FALSE, val |-> [type |-> "none", data |-> <<>>], err |-> e]

ReturnedNone == Returned("none", <<>>)

Pending == Raised("pending")

\* Errors of the managed services other than not-found.
ServiceErrors == {"Forbidden", "ServiceUnavailable"}

Faults == {"none"} \cup ServiceErrors

\* Object names are strings, modelled as sequences of characters.  The
\* sequence lists the names the model uses in the order the service lists
\* objects (lexicographic by name).
ObjectNames ==
    << <<"a">>,
       <<"a", "/", "/", "x">>,
       <<"a", "/", "d", "/">>,
       <<"a", "/", "d", "/", "x">>,
       <<"a", "/", "x">>,
       <<"a", "/", "x", "/", "y">>,
       <<"a", "b", "/", "x">>,
       <<"b">> >>

NameSet == {ObjectNames[i] : i \in DOMAIN ObjectNames}

Bytes == {"b1", "b2"}

\* str.startswith / str.endswith
StartsWith(s, p) == Len(p) <= Len(s) /\ SubSeq(s, 1, Len(p)) = p

EndsWith(s, c) == Len(s) > 0 /\ s[Len(s)] = c

\* The service's answer to a download request.
ServiceDownload(bkt, name, fault) ==
    IF fault # "none" THEN Raised(fault)
    ELSE IF name \notin DOMAIN bkt THEN Raised("NotFound")
    ELSE Returned("bytes", << <<bkt[name]>> >>)

\* A mutated download_blob without the `except NotFound` clause.
download_blob_NoMapping(bkt, name, fault) == ServiceDownload(bkt, name, fault)

\* download_blob (storage.py:19-44): NotFound becomes FileNotFoundError,
\* any other exception is logged and re-raised.
download_blob(bkt, name, fault) ==
    LET r == ServiceDownload(bkt, name, fault)
    IN  IF ~r.ok /\ r.err = "NotFound" THEN Raised("FileNotFoundError") ELSE r

\* The service's listing: the names with the prefix, in the service's order.
ServiceList(bkt, prefix, fault) ==
    IF fault # "none" THEN Raised(fault)
    ELSE Returned("list",
                  SelectSeq(ObjectNames,
                            LAMBDA n : n \in DOMAIN bkt /\ StartsWith(n, prefix)))

\* list_blobs (storage.py:77-98)
list_blobs(bkt, prefix, fault) == ServiceList(bkt, prefix, fault)

\* The local files an upload may name, and a path with no file behind it.
LocalFiles == [p \in {"f1", "f2"} |-> IF p = "f1" THEN "b1" ELSE "b2"]

LocalPaths == DOMAIN LocalFiles \cup {"nofile"}

\* blob.public_url: the public address of the object, computed locally.
PublicUrl(name) == << <<"https://storage.googleapis.com/bucket/">>, name >>

\* What can go wrong during an upload: a service error on the upload
\* request, or ("acl") a Forbidden on the later make_public request.
UploadFaults == Faults \cup {"acl"}

\* upload_blob (storage.py:46-75): upload the file, make the object public
\* when asked, return blob.public_url in either case.  The result is the
\* outcome together with the service's state afterwards.
upload_blob(bkt, pub, name, path, is_public, fault) ==
    IF path \notin DOMAIN LocalFiles
    THEN [out |-> Raised("FileNotFoundError"), bucket |-> bkt, public |-> pub]
    ELSE IF fault \in ServiceErrors
    THEN [out |-> Raised(fault), bucket |-> bkt, public |-> pub]
    ELSE LET stored == [n \in DOMAIN bkt \cup {name} |->
                          IF n = name THEN LocalFiles[path] ELSE bkt[n]]
         IN  IF is_public /\ fault = "acl"
             THEN [out |-> Raised("Forbidden"), bucket |-> stored, public |-> pub]
             ELSE [out |-> Returned("str", PublicUrl(name)),
                   bucket |-> stored,
                   public |-> IF is_public THEN pub \cup {name} ELSE pub]

---------------------------------------------------------------------------
(* The warehouse connector (bigquery.py).  A table is a sequence of rows;  *)
(* a query is SELECT * FROM <table> with an optional LIMIT (0: no LIMIT).  *)

MaxRows == 2

TableIds == {"t1", "t2"}

RowValues == {"r1"}

True == Returned("bool", << <<"True">> >>)

False == Returned("bool", << <<"False">> >>)

Frame(rows) == Returned("frame", [i \in 1..Len(rows) |-> <<rows[i]>>])

Min(a, b) == IF a <= b THEN a ELSE b

\* The service's answer to a table-metadata request.
ServiceGetTable(tbls, t, fault) ==
    IF fault # "none" THEN Raised(fault)
    ELSE IF t \notin DOMAIN tbls THEN Raised("NotFound")
    ELSE ReturnedNone

\* A mutated table_exists whose `except NotFound` swallows every error.
table_exists_CatchAll(tbls, t, fault) ==
    IF ServiceGetTable(tbls, t, fault).ok THEN True ELSE False

\* table_exists (bigquery.py:68-90)
table_exists(tbls, t, fault) ==
    LET r == ServiceGetTable(tbls, t, fault)
    IN  IF r.ok THEN True
        ELSE IF r.err = "NotFound" THEN False
        ELSE r

\* execute_query (bigquery.py:18-41): run the query and return its rows; any
\* error is logged and re-raised.
execute_query(tbls, query, fault) ==
    IF fault # "none" THEN Raised(fault)
    ELSE IF query.from \notin DOMAIN tbls THEN Raised("NotFound")
    ELSE Frame(IF query.limit = 0 THEN tbls[query.from]
               ELSE SubSeq(tbls[query.from], 1,
                           Min(query.limit, Len(tbls[query.from]))))

\* get_table_data (bigquery.py:43-66): `if limit:` adds LIMIT only for a
\* limit that is neither None nor 0 (both modelled as 0).
get_table_data(tbls, t, limit, fault) ==
    execute_query(tbls, [from |-> t, limit |-> limit], fault)

\* create_table (bigquery.py:92-111): the service refuses an existing table.
create_table(tbls, t, fault) ==
    IF fault # "none" THEN [out |-> Raised(fault), tables |-> tbls]
    ELSE IF t \in DOMAIN tbls THEN [out |-> Raised("Conflict"), tables |-> tbls]
    ELSE [out |-> ReturnedNone,
          tables |-> [x \in DOMAIN tbls \cup {t} |->
                        IF x = t THEN <<>> ELSE tbls[x]]]

WriteDispositions == {"WRITE_TRUNCATE", "WRITE_APPEND", "WRITE_EMPTY"}

\* upload_dataframe (bigquery.py:113-146): a load job under the given write
\* disposition, waited for; the job creates a missing table.
upload_dataframe(tbls, t, rows, disposition, fault) ==
    LET old == IF t \in DOMAIN tbls THEN tbls[t] ELSE <<>>
        new == IF disposition = "WRITE_APPEND" THEN old \o rows ELSE rows
    IN  IF fault # "none" THEN [out |-> Raised(fault), tables |-> tbls]
        ELSE IF disposition = "WRITE_EMPTY" /\ old # <<>>
        THEN [out |-> Raised("Conflict"), tables |-> tbls]
        ELSE [out |-> ReturnedNone,
              tables |-> [x \in DOMAIN tbls \cup {t} |->
                            IF x = t THEN new ELSE tbls[x]]]

---------------------------------------------------------------------------
(* Connector calls, one at a time.  A synchronous call runs to completion  *)
(* in one step.  An asynchronous call hands the synchronous method to a    *)
(* worker thread (asyncio.to_thread), the thread runs it, and the          *)
(* coroutine resumes with what the `await` yields.                         *)

NoArgs ==
    [name |-> <<>>, path |-> "", is_public |-> FALSE, prefix |-> <<>>,
     table |-> "", limit |-> 0, rows |-> <<>>, disposition |-> ""]

ServiceState == [bucket |-> bucket, public |-> publicBlobs, tables |-> tables]

NoCall ==
    [op |-> "none", mode |-> "sync", args |-> NoArgs, fault |-> "none",
     pre |-> [bucket |-> <<>>, public |-> {}, tables |-> <<>>],
     thread |-> Pending, result |-> Pending, pc |-> "idle"]

\* The synchronous method `op` run on the service state st.
Apply(op, a, fault, st) ==
    LET same(out) == [out |-> out, bucket |-> st.bucket,
                      public |-> st.public, tables |-> st.tables]
        store(r) == [out |-> r.out, bucket |-> r.bucket,
                     public |-> r.public, tables |-> st.tables]
        table(r) == [out |-> r.out, bucket |-> st.bucket,
                     public |-> st.public, tables |-> r.tables]
    IN  CASE op = "download_blob" ->
                same(download_blob(st.bucket, a.name, fault))
          [] op = "upload_blob" ->
                store(upload_blob(st.bucket, st.public, a.name, a.path,
                                  a.is_public, fault))
          [] op = "list_blobs" -> same(list_blobs(st.bucket, a.prefix, fault))
          [] op = "execute_query" ->
                same(execute_query(st.tables,
                                   [from |-> a.table, limit |-> a.limit], fault))
          [] op = "get_table_data" ->
                same(get_table_data(st.tables, a.table, a.limit, fault))
          [] op = "table_exists" -> same(table_exists(st.tables, a.table, fault))
          [] op = "create_table" -> table(create_table(st.tables, a.table, fault))
          [] op = "upload_dataframe" ->
                table(upload_dataframe(st.tables, a.table, a.rows,
                                       a.disposition, fault))

CanCall == call.pc \in {"idle", "done"}

\* A call of the synchronous method.
Sync(op, a, fault) ==
    /\ LET r == Apply(op, a, fault, ServiceState)
       IN  /\ bucket' = r.bucket
           /\ publicBlobs' = r.public
           /\ tables' = r.tables
           /\ call' = [op |-> op, mode |-> "sync", args |-> a, fault |-> fault,
                       pre |-> ServiceState, thread |-> Pending,
                       result |-> r.out, pc |-> "done"]
    /\ UNCHANGED <<cfgVars, folderVars>>

\* A call of the asynchronous method, up to its `await`.
Submit(op, a) ==
    /\ call' = [op |-> op, mode |-> "async", args |-> a, fault |-> "none",
                pre |-> ServiceState, thread |-> Pending,
                result |-> Pending, pc |-> "submitted"]
    /\ UNCHANGED <<bucket, publicBlobs, tables>>
    /\ UNCHANGED <<cfgVars, folderVars>>

\* asyncio.to_thread: the worker thread runs the synchronous method.
ToThread ==
    /\ call.pc = "submitted"
    /\ \E fault \in (IF call.op = "upload_blob" THEN UploadFaults ELSE Faults) :
         LET r == Apply(call.op, call.args, fault, ServiceState)
         IN  /\ bucket' = r.bucket
             /\ publicBlobs' = r.public
             /\ tables' = r.tables
             /\ call' = [call EXCEPT !.fault = fault, !.pre = ServiceState,
                                     !.thread = r.out, !.pc = "finished"]
    /\ UNCHANGED <<cfgVars, folderVars>>

\* The asynchronous methods that `return await asyncio.to_thread(...)`
\* (storage.py:155, 191; bigquery.py:160, 176, 189).
ReturningAsync ==
    {"download_blob", "list_blobs", "execute_query", "get_table_data",
     "table_exists"}

\* The asynchronous methods that only `await asyncio.to_thread(...)`
\* (storage.py:173-175; bigquery.py:202, 222-224).
AwaitingAsync == {"upload_blob", "create_table", "upload_dataframe"}

\* return await ...: the thread's value or exception is the coroutine's.
ReturnAwait ==
    /\ call.pc = "finished"
    /\ call.op \in ReturningAsync
    /\ call' = [call EXCEPT !.result = call.thread, !.pc = "done"]
    /\ UNCHANGED <<bucket, publicBlobs, tables>>
    /\ UNCHANGED <<cfgVars, folderVars>>

\* await ... without return: the thread's exception propagates, its value
\* is dropped and the coroutine returns None.
AwaitOnly ==
    /\ call.pc = "finished"
    /\ call.op \in AwaitingAsync
    /\ call' = [call EXCEPT
                   !.result = IF call.thread.ok THEN ReturnedNone
                              ELSE call.thread,
                   !.pc = "done"]
    /\ UNCHANGED <<bucket, publicBlobs, tables>>
    /\ UNCHANGED <<cfgVars, folderVars>>

\* ---- the object-store connector's calls
BlobNames == {<<"a", "/", "x">>, <<"b">>}

Prefixes == {<<>>, <<"a">>, <<"a", "/">>}

DownloadArgs == {[NoArgs EXCEPT !.name = n] : n \in BlobNames}

UploadArgs ==
    {[NoArgs EXCEPT !.name = n, !.path = f, !.is_public = pb] :
        n \in BlobNames, f \in LocalPaths, pb \in BOOLEAN}

ListArgs == {[NoArgs EXCEPT !.prefix = q] : q \in Prefixes}

DownloadBlob ==
    /\ CanCall
    /\ \E a \in DownloadArgs, f \in Faults : Sync("download_blob", a, f)

UploadBlob ==
    /\ CanCall
    /\ \E a \in UploadArgs, f \in UploadFaults : Sync("upload_blob", a, f)

ListBlobs ==
    /\ CanCall
    /\ \E a \in ListArgs, f \in Faults : Sync("list_blobs", a, f)

DownloadBlobAsync ==
    /\ CanCall
    /\ \E a \in DownloadArgs : Submit("download_blob", a)

UploadBlobAsync ==
    /\ CanCall
    /\ \E a \in UploadArgs : Submit("upload_blob", a)

ListBlobsAsync ==
    /\ CanCall
    /\ \E a \in ListArgs : Submit("list_blobs", a)

\* ---- the warehouse connector's calls
QueryArgs ==
    {[NoArgs EXCEPT !.table = t, !.limit = l] : t \in TableIds, l \in 0..MaxRows}

TableArgs == {[NoArgs EXCEPT !.table = t] : t \in TableIds}

\* Uploads that keep every table within MaxRows rows.
LoadArgs ==
    {a \in {[NoArgs EXCEPT !.table = t, !.rows = r, !.disposition = d] :
              t \in TableIds, r \in SeqUpTo(RowValues, MaxRows),
              d \in WriteDispositions} :
        Len(a.rows) + (IF a.table \in DOMAIN tables /\ a.disposition = "WRITE_APPEND"
                       THEN Len(tables[a.table]) ELSE 0) <= MaxRows}

ExecuteQuery ==
    /\ CanCall
    /\ \E a \in QueryArgs, f \in Faults : Sync("execute_query", a, f)

GetTableData ==
    /\ CanCall
    /\ \E a \in QueryArgs, f \in Faults : Sync("get_table_data", a, f)

TableExists ==
    /\ CanCall
    /\ \E a \in TableArgs, f \in Faults : Sync("table_exists", a, f)

CreateTable ==
    /\ CanCall
    /\ \E a \in TableArgs, f \in Faults : Sync("create_table", a, f)

UploadDataframe ==
    /\ CanCall
    /\ \E a \in LoadArgs, f \in Faults : Sync("upload_dataframe", a, f)

ExecuteQueryAsync ==
    /\ CanCall
    /\ \E a \in QueryArgs : Submit("execute_query", a)

GetTableDataAsync ==
    /\ CanCall
    /\ \E a \in QueryArgs : Submit("get_table_data", a)

TableExistsAsync ==
    /\ CanCall
    /\ \E a \in TableArgs : Submit("table_exists", a)

CreateTableAsync ==
    /\ CanCall
    /\ \E a \in TableArgs : Submit("create_table", a)

UploadDataframeAsync ==
    /\ CanCall
    /\ \E a \in LoadArgs : Submit("upload_dataframe", a)

---------------------------------------------------------------------------
(* Paths (os.path, posix) and the local file system.  A path string is a   *)
(* sequence of characters; a split path is a sequence of components.       *)

\* str.split("/") from position i on, cur the component being read.
RECURSIVE SplitFrom(_, _, _)
SplitFrom(s, i, cur) ==
    IF i > Len(s) THEN <<cur>>
    ELSE IF s[i] = "/" THEN <<cur>> \o SplitFrom(s, i + 1, <<>>)
    ELSE SplitFrom(s, i + 1, Append(cur, s[i]))

Split(s) == SplitFrom(s, 1, <<>>)

Dot == <<".">>

DotDot == <<".", ".">>

\* The process's working directory, as the components below the root.
Cwd == << <<"w">> >>

\* os.path.normpath of an absolute path: empty and "." components vanish,
\* ".." removes the component before it (and vanishes at the root).
RECURSIVE NormFrom(_, _, _)
NormFrom(comps, i, acc) ==
    IF i > Len(comps) THEN acc
    ELSE IF comps[i] = <<>> \/ comps[i] = Dot THEN NormFrom(comps, i + 1, acc)
    ELSE IF comps[i] = DotDot
         THEN NormFrom(comps, i + 1,
                       IF acc = <<>> THEN acc ELSE SubSeq(acc, 1, Len(acc) - 1))
    ELSE NormFrom(comps, i + 1, Append(acc, comps[i]))

\* os.path.abspath: normpath(join(cwd, path)); an absolute path replaces cwd.
abspath(path) ==
    IF Len(path) > 0 /\ path[1] = "/" THEN NormFrom(Split(path), 1, <<>>)
    ELSE NormFrom(Cwd \o Split(path), 1, <<>>)

\* The length of the longest common prefix of two component lists.
RECURSIVE CommonLen(_, _, _)
CommonLen(a, b, i) ==
    IF i <= Len(a) /\ i <= Len(b) /\ a[i] = b[i] THEN CommonLen(a, b, i + 1)
    ELSE i - 1

\* os.path.relpath(path, start), as a list of components: one ".." for each
\* component of start below the common prefix, then the rest of path; "."
\* when nothing is left.
relpath(path, start) ==
    LET start_list == abspath(start)
        path_list == abspath(path)
        i == CommonLen(start_list, path_list, 1)
        rel_list == [k \in 1..(Len(start_list) - i) |-> DotDot]
                        \o SubSeq(path_list, i + 1, Len(path_list))
    IN  IF rel_list = <<>> THEN <<Dot>> ELSE rel_list

\* os.path.join(local_folder, relative_path) for a relative second part.
join(folder, rel) == Split(folder) \o rel

\* os.path.dirname of a split path with at least two components.
dirname(comps) == SubSeq(comps, 1, Len(comps) - 1)

\* The local file system: the directories and the files, each named by its
\* components below the root.
NewFs == [dirs |-> {<<>>, Cwd}, files |-> <<>>]

IsFile(fs, p) == p \in DOMAIN fs.files

\* Walk the components from directory `at`, as the kernel resolves a path:
\* every step needs `at` to be a directory; ".." goes to the parent.  With
\* create, missing directories are made on the way (os.makedirs with
\* exist_ok).  The result is the directory reached, or an error.
RECURSIVE Walk(_, _, _, _, _)
Walk(fs, at, comps, i, create) ==
    IF at \notin fs.dirs
    THEN [ok |-> FALSE, at |-> at, fs |-> fs,
          err |-> IF IsFile(fs, at) THEN "NotADirectoryError"
                  ELSE "FileNotFoundError"]
    ELSE IF i > Len(comps) THEN [ok |-> TRUE, at |-> at, fs |-> fs, err |-> ""]
    ELSE IF comps[i] = <<>> \/ comps[i] = Dot
         THEN Walk(fs, at, comps, i + 1, create)
    ELSE IF comps[i] = DotDot
         THEN Walk(fs, IF at = <<>> THEN at ELSE SubSeq(at, 1, Len(at) - 1),
                   comps, i + 1, create)
    ELSE LET next == Append(at, comps[i])
         IN  IF create /\ next \notin fs.dirs /\ ~IsFile(fs, next)
             THEN Walk([fs EXCEPT !.dirs = @ \cup {next}], next, comps, i + 1,
                       create)
             ELSE IF create /\ IsFile(fs, next)
             THEN [ok |-> FALSE, at |-> next, fs |-> fs,
                   err |-> IF i = Len(comps) THEN "FileExistsError"
                           ELSE "NotADirectoryError"]
             ELSE Walk(fs, next, comps, i + 1, create)

\* os.makedirs(path, exist_ok=True) for a path relative to the working
\* directory: [ok, fs, err].
makedirs(fs, comps) == Walk(fs, Cwd, comps, 1, TRUE)

\* open(path, "wb") followed by write(content): the parent must resolve to
\* a directory and the file itself must not be a directory.
write_file(fs, comps, content) ==
    LET parent == Walk(fs, Cwd, dirname(comps), 1, FALSE)
        last == comps[Len(comps)]
        target == Append(parent.at, last)
    IN  IF ~parent.ok THEN [ok |-> FALSE, fs |-> fs, err |-> parent.err]
        ELSE IF last \in {<<>>, Dot, DotDot} \/ target \in fs.dirs
        THEN [ok |-> FALSE, fs |-> fs, err |-> "IsADirectoryError"]
        ELSE [ok |-> TRUE,
              fs |-> [fs EXCEPT !.files =
                        [q \in DOMAIN fs.files \cup {target} |->
                           IF q = target THEN content ELSE fs.files[q]]],
              err |-> ""]

---------------------------------------------------------------------------
(* download_folder (storage.py:100-143)                                    *)

MaxObjects == 2

LocalFolder == <<"l">>

GcsFolders == {<<"a">>, <<"a", "/">>}

\* os.path.join(local_folder, os.path.relpath(blob_name, gcs_folder))
local_file_path(blob_name, folder) ==
    join(LocalFolder, relpath(blob_name, folder))

\* The loop of download_folder from blobs[i] on: a name ending in "/" is
\* skipped; otherwise the parent directories are made, the blob downloaded
\* and the file written; the first exception ends the loop and is raised.
\* faults gives the service's behaviour for each download.
RECURSIVE download_folder_loop(_, _, _, _, _, _)
download_folder_loop(names, i, bkt, folder, faults, f) ==
    IF i > Len(names) THEN [out |-> ReturnedNone, fs |-> f]
    ELSE IF EndsWith(names[i], "/")
         THEN download_folder_loop(names, i + 1, bkt, folder, faults, f)
    ELSE LET path == local_file_path(names[i], folder)
             made == makedirs(f, dirname(path))
             content == download_blob(bkt, names[i], faults[names[i]])
             written == write_file(made.fs, path, content.val.data[1][1])
         IN  IF ~made.ok THEN [out |-> Raised(made.err), fs |-> made.fs]
             ELSE IF ~content.ok THEN [out |-> content, fs |-> made.fs]
             ELSE IF ~written.ok THEN [out |-> Raised(written.err), fs |-> made.fs]
             ELSE download_folder_loop(names, i + 1, bkt, folder, faults,
                                       written.fs)

download_folder(bkt, folder, listFault, faults, f) ==
    LET listed == list_blobs(bkt, folder, listFault)
    IN  IF ~listed.ok THEN [out |-> listed, fs |-> f]
        ELSE download_folder_loop(listed.val.data, 1, bkt, folder, faults, f)

\* The synchronous call blocks its caller from start to end.
DownloadFolder ==
    /\ folderMode = "none"
    /\ \E listFault \in Faults, faults \in [DOMAIN bucket -> Faults] :
         LET r == download_folder(bucket, gcs_folder, listFault, faults, localFs)
         IN  /\ localFs' = r.fs
             /\ folderOut' = r.out
    /\ folderMode' = "sync"
    /\ UNCHANGED <<gcs_folder, pcFolder, blobs, tasks, gather, failed>>
    /\ UNCHANGED <<cfgVars, svcVars>>

---------------------------------------------------------------------------
(* download_folder_async (storage.py:193-237) and _download_and_save       *)
(* (storage.py:239-249)                                                    *)

\* blobs = await self.list_blobs_async(bucket_name, prefix=gcs_folder)
DownloadFolderAsyncList ==
    /\ folderMode = "none"
    /\ folderMode' = "async"
    /\ \E fault \in Faults :
         LET listed == list_blobs(bucket, gcs_folder, fault)
         IN  IF listed.ok
             THEN /\ blobs' = listed.val.data
                  /\ pcFolder' = "listed"
                  /\ UNCHANGED folderOut
             ELSE /\ folderOut' = listed
                  /\ pcFolder' = "raised"
                  /\ UNCHANGED blobs
    /\ UNCHANGED <<gcs_folder, localFs, tasks, gather, failed>>
    /\ UNCHANGED <<cfgVars, svcVars>>

\* The loop that builds download_tasks from names[i] on: directories are
\* made at once, the coroutine of each remaining blob is collected.
RECURSIVE make_tasks(_, _, _, _, _)
make_tasks(names, i, folder, f, acc) ==
    IF i > Len(names) THEN [ok |-> TRUE, fs |-> f, tasks |-> acc, err |-> ""]
    ELSE IF EndsWith(names[i], "/") THEN make_tasks(names, i + 1, folder, f, acc)
    ELSE LET path == local_file_path(names[i], folder)
             made == makedirs(f, dirname(path))
         IN  IF ~made.ok
             THEN [ok |-> FALSE, fs |-> made.fs, tasks |-> acc, err |-> made.err]
             ELSE make_tasks(names, i + 1, folder, made.fs,
                             Append(acc, [blob_name |-> names[i],
                                          local_file_path |-> path,
                                          pc |-> "scheduled",
                                          content |-> Pending,
                                          err |-> ""]))

\* The loop, then asyncio.gather(*download_tasks) up to its await: gather of
\* no awaitables is done at once.
DownloadFolderAsyncGather ==
    /\ pcFolder = "listed"
    /\ LET r == make_tasks(blobs, 1, gcs_folder, localFs, <<>>)
       IN  /\ localFs' = r.fs
           /\ IF r.ok
              THEN /\ tasks' = r.tasks
                   /\ gather' = IF r.tasks = <<>> THEN ReturnedNone ELSE Pending
                   /\ pcFolder' = "gathering"
                   /\ UNCHANGED folderOut
              ELSE /\ folderOut' = Raised(r.err)
                   /\ pcFolder' = "raised"
                   /\ UNCHANGED <<tasks, gather>>
    /\ UNCHANGED <<gcs_folder, folderMode, blobs, failed>>
    /\ UNCHANGED <<cfgVars, svcVars>>

\* content = await self.download_blob_async(...): the worker thread runs
\* download_blob.
TaskDownload(i) ==
    /\ tasks[i].pc = "scheduled"
    /\ \E fault \in Faults :
         tasks' = [tasks EXCEPT
                     ![i].content = download_blob(bucket, tasks[i].blob_name, fault),
                     ![i].pc = "downloaded"]
    /\ UNCHANGED <<gcs_folder, localFs, folderMode, pcFolder, folderOut, blobs,
                   gather, failed>>
    /\ UNCHANGED <<cfgVars, svcVars>>

\* A mutated gather with return_exceptions=True: a task's exception is a
\* result like any other.
gather_done_callback_ReturnExceptions(g, ts, i) ==
    IF g # Pending THEN g
    ELSE IF \A j \in DOMAIN ts : ts[j].pc \in {"saved", "failed"}
    THEN ReturnedNone
    ELSE g

\* gather's callback for the finished task i: once the future is done it
\* stays as it is; the first exception becomes the future's exception; the
\* last task to finish sets the result.
gather_done_callback(g, ts, i) ==
    IF g # Pending THEN g
    ELSE IF ts[i].pc = "failed" THEN Raised(ts[i].err)
    ELSE IF \A j \in DOMAIN ts : ts[j].pc \in {"saved", "failed"}
    THEN ReturnedNone
    ELSE g

\* The task resumes: the download's exception ends it, otherwise it writes
\* the file; gather then learns that the task is finished.
TaskSave(i) ==
    /\ tasks[i].pc = "downloaded"
    /\ LET t == tasks[i]
           written == write_file(localFs, t.local_file_path, t.content.val.data[1][1])
           err == IF ~t.content.ok THEN t.content.err
                  ELSE IF ~written.ok THEN written.err
                  ELSE ""
           ts == [tasks EXCEPT ![i].pc = IF err = "" THEN "saved" ELSE "failed",
                               ![i].err = err]
       IN  /\ tasks' = ts
           /\ localFs' = IF err = "" THEN written.fs ELSE localFs
           /\ failed' = IF err = "" THEN failed ELSE Append(failed, i)
           /\ gather' = gather_done_callback(gather, ts, i)
    /\ UNCHANGED <<gcs_folder, folderMode, pcFolder, folderOut, blobs>>
    /\ UNCHANGED <<cfgVars, svcVars>>

\* await asyncio.gather(...) resumes: with the result the method returns,
\* with the exception it logs and re-raises.
DownloadFolderAsyncFinish ==
    /\ pcFolder = "gathering"
    /\ gather # Pending
    /\ folderOut' = gather
    /\ pcFolder' = IF gather.ok THEN "returned" ELSE "raised"
    /\ UNCHANGED <<gcs_folder, localFs, folderMode, blobs, tasks, gather, failed>>
    /\ UNCHANGED <<cfgVars, svcVars>>

---------------------------------------------------------------------------
(* Specifications.  Each exercises one part of the package; the variables  *)
(* of the other parts stay at their idle values.                           *)

CfgIdle ==
    /\ environment = NotRun
    /\ defaultFile = Missing
    /\ envFile = Missing
    /\ config = NotRun
    /\ API_CONFIG = NotRun
    /\ GCP_CONFIG = NotRun
    /\ pcCfg = "start"

SvcIdle ==
    /\ bucket = <<>>
    /\ publicBlobs = {}
    /\ tables = <<>>
    /\ call = NoCall

FolderIdle ==
    /\ gcs_folder = <<>>
    /\ localFs = NewFs
    /\ folderMode = "none"
    /\ pcFolder = "start"
    /\ folderOut = Pending
    /\ blobs = <<>>
    /\ tasks = <<>>
    /\ gather = Pending
    /\ failed = <<>>

\* Environment selection on its own, over every short command line.
InitEnv ==
    /\ argv \in SeqUpTo(Tokens, MaxArgs)
    /\ environ \in EnvironStates
    /\ CfgIdle
    /\ SvcIdle
    /\ FolderIdle

NextEnv == GetEnv

SpecEnv == InitEnv /\ [][NextEnv]_vars

\* The whole import, over a few command lines and every pair of documents.
ConfigArgvs == {<<>>, <<"-e", "x">>, <<"--environment", "default">>}

InitConfig ==
    /\ argv \in ConfigArgvs
    /\ environ \in EnvironStates
    /\ CfgIdle
    /\ SvcIdle
    /\ FolderIdle

NextConfig ==
    \/ GetEnv
    \/ ResolveConfig
    \/ BuildApiConfig
    \/ BuildGcpConfig

SpecConfig == InitConfig /\ [][NextConfig]_vars

\* Every object store over the given names.
Buckets(names) == UNION {[S -> Bytes] : S \in SUBSET names}

InitStorage ==
    /\ bucket \in Buckets(BlobNames)
    /\ publicBlobs = {}
    /\ tables = <<>>
    /\ call = NoCall
    /\ argv = <<>>
    /\ environ = <<>>
    /\ CfgIdle
    /\ FolderIdle

NextStorage ==
    \/ DownloadBlob
    \/ UploadBlob
    \/ ListBlobs
    \/ DownloadBlobAsync
    \/ UploadBlobAsync
    \/ ListBlobsAsync
    \/ ToThread
    \/ ReturnAwait
    \/ AwaitOnly

SpecStorage == InitStorage /\ [][NextStorage]_vars

InitBigQuery ==
    /\ bucket = <<>>
    /\ publicBlobs = {}
    /\ tables \in UNION {[S -> SeqUpTo(RowValues, 1)] : S \in SUBSET TableIds}
    /\ call = NoCall
    /\ argv = <<>>
    /\ environ = <<>>
    /\ CfgIdle
    /\ FolderIdle

NextBigQuery ==
    \/ ExecuteQuery
    \/ GetTableData
    \/ TableExists
    \/ CreateTable
    \/ UploadDataframe
    \/ ExecuteQueryAsync
    \/ GetTableDataAsync
    \/ TableExistsAsync
    \/ CreateTableAsync
    \/ UploadDataframeAsync
    \/ ToThread
    \/ ReturnAwait
    \/ AwaitOnly

SpecBigQuery == InitBigQuery /\ [][NextBigQuery]_vars

\* Every bucket of at most MaxObjects objects, every prefix, a fresh local
\* directory.
InitFolder ==
    /\ bucket \in UNION {[S -> Bytes] :
                           S \in {T \in SUBSET NameSet : Cardinality(T) <= MaxObjects}}
    /\ gcs_folder \in GcsFolders
    /\ localFs = NewFs
    /\ folderMode = "none"
    /\ pcFolder = "start"
    /\ folderOut = Pending
    /\ blobs = <<>>
    /\ tasks = <<>>
    /\ gather = Pending
    /\ failed = <<>>
    /\ publicBlobs = {}
    /\ tables = <<>>
    /\ call = NoCall
    /\ argv = <<>>
    /\ environ = <<>>
    /\ CfgIdle

NextFolder ==
    \/ DownloadFolder
    \/ DownloadFolderAsyncList
    \/ DownloadFolderAsyncGather
    \/ \E i \in DOMAIN tasks : TaskDownload(i)
    \/ \E i \in DOMAIN tasks : TaskSave(i)
    \/ DownloadFolderAsyncFinish

SpecFolder == InitFolder /\ [][NextFolder]_vars

---------------------------------------------------------------------------
(* Claims about the configuration resolver and the typed views.            *)

\* __init__.py:111 has been executed.
Resolved == pcCfg \in {"config", "api", "views", "failed"}

\* The two mappings handed to _deep_merge, when both documents loaded.
BaseMapping == _get_config_dict(defaultFile).val

OverrideMapping == _get_config_dict(envFile).val

BothLoaded ==
    /\ Resolved
    /\ _get_config_dict(defaultFile).ok
    /\ _get_config_dict(envFile).ok
    /\ IsDict(BaseMapping)
    /\ IsDict(OverrideMapping)

\* C1: for any two mappings A (base) and B (override) the merge completes
\* with a mapping `merged` whose keys are those of A and B, where a key only
\* in A keeps A's value, a key only in B takes B's value, a key in both whose
\* values are both mappings holds the recursive merge of the two, and any
\* other shared key takes B's value.
C1_DeepMergeContract ==
    BothLoaded =>
        /\ config.ok
        /\ IsDict(config.val)
        /\ Keys(config.val) = Keys(BaseMapping) \cup Keys(OverrideMapping)
        /\ \A k \in Keys(BaseMapping) \cup Keys(OverrideMapping) :
              LET inA == k \in Keys(BaseMapping)
                  inB == k \in Keys(OverrideMapping)
                  merged == config.val.items[k]
              IN  CASE inA /\ ~inB -> merged = BaseMapping.items[k]
                    [] inB /\ ~inA -> merged = OverrideMapping.items[k]
                    [] inA /\ inB /\ IsDict(BaseMapping.items[k])
                                  /\ IsDict(OverrideMapping.items[k]) ->
                          LET sub == _deep_merge(BaseMapping.items[k],
                                                 OverrideMapping.items[k])
                          IN  sub.ok /\ merged = sub.val
                    [] OTHER -> merged = OverrideMapping.items[k]

\* A document that parses to nothing (an empty file, "", {}).
EmptyDocument(file) == file.state = "ok" /\ ~Truthy(file.parsed)

MappingDocument(file) ==
    file.state = "ok" /\ IsDict(file.parsed) /\ Truthy(file.parsed)

\* C5 as stated: a missing or an empty environment document contributes
\* nothing, so resolution succeeds and the merged configuration is the
\* default document's mapping.
C5_MissingOrEmptyIsEmptyMapping ==
    (Resolved /\ MappingDocument(defaultFile)
              /\ (envFile = Missing \/ EmptyDocument(envFile))) =>
        (config.ok /\ config.val = defaultFile.parsed)

\* C5 amended: an empty document resolves to an empty mapping (an empty
\* environment document leaves the default mapping as the configuration, an
\* empty default document leaves the environment mapping), but a missing
\* document, default or environment, fails resolution with FileNotFoundError.
C5_EmptyIsEmptyMissingFails ==
    Resolved =>
        /\ (MappingDocument(defaultFile) /\ EmptyDocument(envFile)) =>
              (config.ok /\ config.val = defaultFile.parsed)
        /\ (EmptyDocument(defaultFile) /\ MappingDocument(envFile)) =>
              (config.ok /\ config.val = envFile.parsed)
        /\ (EmptyDocument(defaultFile) /\ EmptyDocument(envFile)) =>
              (config.ok /\ config.val = EmptyDict)
        /\ defaultFile = Missing =>
              (~config.ok /\ config.err = "FileNotFoundError")
        /\ (_get_config_dict(defaultFile).ok /\ envFile = Missing) =>
              (~config.ok /\ config.err = "FileNotFoundError")

\* C5 witness: the default document is a mapping, the environment document
\* does not exist, and resolution has failed with FileNotFoundError.
C5_Witness ==
    /\ pcCfg = "failed"
    /\ MappingDocument(defaultFile)
    /\ envFile = Missing
    /\ config = Raise("FileNotFoundError")

\* Whether Python's constructor of the declared type accepts the value:
\* str() and bool() accept anything, int() and float() accept numbers and
\* numeric strings.
NumericLiterals == {"0", "8080", "0.5"}

Coercible(v, t) ==
    CASE t = "str" -> TRUE
      [] t = "bool" -> TRUE
      [] OTHER -> \/ v.kind \in {"int", "float", "bool"}
                  \/ v.kind = "str" /\ v.leaf \in NumericLiterals

\* The subsection a view was built from, once its construction was tried.
ApiTried == config.ok /\ API_CONFIG # NotRun /\ "api_config" \in Keys(config.val)

GcpTried == config.ok /\ GCP_CONFIG # NotRun /\ "gcp_config" \in Keys(config.val)

ApiSection == config.val.items["api_config"]

GcpSection == config.val.items["gcp_config"]

ViewContract(fields, section, view) ==
    /\ (\E f \in fields : f \notin Keys(section)) => ~view.ok
    /\ (\E f \in fields \cap Keys(section) :
           ~Coercible(section.items[f], FieldType[f])) => ~view.ok
    /\ view.ok => \A f \in fields :
                     f \in Keys(section) /\ Coercible(section.items[f], FieldType[f])

ViewBehaviour(fields, section, view) ==
    /\ view.ok <=> (IsDict(section) /\ Keys(section) = fields)
    /\ ~view.ok => view.err = "TypeError"
    /\ view.ok => \A f \in fields : view.val.items[f] = section.items[f]

FlagPositions == {i \in 1..Len(argv) : argv[i] \in FlagStrings}

Last(S) == CHOOSE i \in S : \A j \in S : j <= i

\* C7: the resolved environment is the flag's value (of its last occurrence)
\* whenever the flag is supplied, whatever ENVIRONMENT holds; it is the
\* value of ENVIRONMENT when the flag is absent and the variable set; it is
\* "local" when neither is set.
C7_EnvironmentPrecedence ==
    pcCfg = "env" =>
        /\ environment.ok
        /\ environment.val.kind = "str"
        /\ IF FlagPositions # {}
           THEN /\ Last(FlagPositions) < Len(argv)
                /\ environment.val.leaf = argv[Last(FlagPositions) + 1]
           ELSE IF Len(environ) > 0 THEN environment.val.leaf = environ[1]
           ELSE environment.val.leaf = "local"

\* C7 witness: the flag and the variable are both given, with different
\* values, and the flag's value was chosen.
C7_Witness ==
    /\ pcCfg = "env"
    /\ FlagPositions # {}
    /\ Len(environ) > 0
    /\ environ[1] # argv[Last(FlagPositions) + 1]
    /\ environment.val.leaf = argv[Last(FlagPositions) + 1]

---------------------------------------------------------------------------
(* Claims about single connector calls.                                    *)

Done(op) == call.op = op /\ call.pc = "done"

\* What the synchronous method yields for the finished call, on the service
\* state and with the service behaviour the call met.
SyncOutcome == Apply(call.op, call.args, call.fault, call.pre).out

\* C2: every asynchronous method yields what its synchronous method yields
\* on the same arguments and service state: the same returned value (for
\* upload_blob_async, the URL) or the same raised error.
C2_AsyncSameAsSync ==
    (call.mode = "async" /\ call.pc = "done") => call.result = SyncOutcome

\* C9: table_exists returns False exactly when the table-metadata fetch
\* reports not-found, True when the fetch succeeds, and raises the service's
\* own error for any other failure of the fetch.
C9_TableExists ==
    Done("table_exists") =>
        LET fetch == ServiceGetTable(call.pre.tables, call.args.table, call.fault)
        IN  /\ (call.result = False) <=> (~fetch.ok /\ fetch.err = "NotFound")
            /\ fetch.ok => call.result = True
            /\ (~fetch.ok /\ fetch.err # "NotFound") =>
                  (~call.result.ok /\ call.result.err = fetch.err)
            /\ (call.fault = "none") =>
                  call.result = (IF call.args.table \in DOMAIN call.pre.tables
                                 THEN True ELSE False)

\* C9 witness: table_exists was asked about a table the warehouse does not
\* hold, and answered False.
C9_Witness ==
    /\ Done("table_exists")
    /\ call.fault = "none"
    /\ call.args.table \notin DOMAIN tables
    /\ call.result = False

\* C10: download_blob raises FileNotFoundError for an object that does not
\* exist, returns exactly the stored bytes of one that does, and raises the
\* service's own error for any other failure.
C10_DownloadBlob ==
    Done("download_blob") =>
        IF call.fault \in ServiceErrors
        THEN ~call.result.ok /\ call.result.err = call.fault
        ELSE IF call.args.name \notin DOMAIN call.pre.bucket
        THEN ~call.result.ok /\ call.result.err = "FileNotFoundError"
        ELSE /\ call.result.ok
             /\ call.result.val.type = "bytes"
             /\ call.result.val.data = << <<call.pre.bucket[call.args.name]>> >>

\* C10 witness: a download of an object that is not in the bucket has raised
\* FileNotFoundError.
C10_Witness ==
    /\ Done("download_blob")
    /\ call.fault = "none"
    /\ call.args.name \notin DOMAIN bucket
    /\ call.result = Raised("FileNotFoundError")

---------------------------------------------------------------------------
(* Claims about the folder download.                                       *)

\* The names the service lists under the prefix, and those of them that are
\* no pseudo-directory markers.
Listed == list_blobs(bucket, gcs_folder, "none").val.data

NonMarkers ==
    {Listed[i] : i \in {j \in DOMAIN Listed : ~EndsWith(Listed[j], "/")}}

\* The file a blob is written to: local_dir joined with the blob's path
\* relative to the prefix, as the file system resolves it.
Target(name) == NormFrom(Cwd \o local_file_path(name, gcs_folder), 1, <<>>)

Files == DOMAIN localFs.files

SyncSucceeded == folderMode = "sync" /\ folderOut.ok

\* C8: after a successful download_folder no file exists for a marker, every
\* other listed object has its file at local_dir joined with its relative
\* path, holding the object's bytes, and the files written are exactly those
\* of the non-marker objects.
C8_DownloadFolder ==
    SyncSucceeded =>
        /\ \A n \in NonMarkers :
              Target(n) \in Files /\ localFs.files[Target(n)] = bucket[n]
        /\ Files = {Target(n) : n \in NonMarkers}

\* What download_folder does for the same bucket, prefix and fresh local
\* directory when no request fails.
SequentialRun ==
    download_folder(bucket, gcs_folder, "none",
                    [n \in DOMAIN bucket |-> "none"], NewFs)

AsyncSucceeded == folderMode = "async" /\ pcFolder = "returned"

\* C3: when no download fails, download_folder_async leaves the same files
\* with the same contents as download_folder, whatever the order in which
\* its tasks complete.
C3_AsyncSameFilesAsSync ==
    AsyncSucceeded =>
        (SequentialRun.out.ok /\ localFs.files = SequentialRun.fs.files)

\* C4: once a task of download_folder_async has failed the operation cannot
\* succeed: gather holds the first task error, the operation raises exactly
\* that error, and a successful completion means that every non-marker
\* object was downloaded and its file written.
C4_TaskFailureFailsOperation ==
    /\ failed # <<>> =>
          /\ pcFolder \in {"gathering", "raised"}
          /\ gather = Raised(tasks[failed[1]].err)
          /\ pcFolder = "raised" => folderOut = Raised(tasks[failed[1]].err)
    /\ AsyncSucceeded =>
          /\ failed = <<>>
          /\ \A n \in NonMarkers :
                /\ \E i \in DOMAIN tasks :
                      tasks[i].blob_name = n /\ tasks[i].pc = "saved"
                /\ Target(n) \in Files

\* C4 witness: two tasks failed with different errors and the operation
\* raised the error of the one that failed first.
C4_Witness ==
    /\ pcFolder = "raised"
    /\ Len(failed) = 2
    /\ tasks[failed[1]].err # tasks[failed[2]].err
    /\ folderOut = Raised(tasks[failed[1]].err)

\* The file a task writes: its local_file_path as the file system resolves
\* it from the working directory.
TaskFile(i) == NormFrom(Cwd \o tasks[i].local_file_path, 1, <<>>)

\* C11: the tasks of download_folder_async target pairwise distinct local
\* paths: two tasks made for two different non-marker object names never
\* have the same computed local file path, nor paths that are one file.
C11_TasksTargetDistinctPaths ==
    \A i, j \in DOMAIN tasks :
        tasks[i].blob_name # tasks[j].blob_name =>
            /\ tasks[i].local_file_path # tasks[j].local_file_path
            /\ TaskFile(i) # TaskFile(j)

\* download_folder_async has completed: it returned or it raised.
AsyncCompleted == folderMode = "async" /\ pcFolder \in {"returned", "raised"}

\* A task that was started and has neither saved its file nor failed.
TaskRunning(i) == tasks[i].pc \in {"scheduled", "downloaded"}

\* C12: download_folder_async waits for all of its tasks: once it has
\* returned or raised, none of its download-and-write tasks is still
\* running, and no step after that changes a local file.
C12_WaitsForAllTasks ==
    /\ [](AsyncCompleted => \A i \in DOMAIN tasks : ~TaskRunning(i))
    /\ [][AsyncCompleted => localFs' = localFs]_vars

\* local_dir as the file system resolves it, and the paths strictly below it.
LocalDir == NormFrom(Cwd \o Split(LocalFolder), 1, <<>>)

Below(p) == Len(p) > Len(LocalDir) /\ SubSeq(p, 1, Len(LocalDir)) = LocalDir

HasParentComponent(comps) == \E k \in DOMAIN comps : comps[k] = DotDot

\* C13: every file that download_folder or download_folder_async writes
\* lies strictly below local_dir, and the local path computed for every
\* listed non-marker name, a name that merely starts with the prefix or
\* equals it included, is a file path strictly below local_dir without a
\* parent-directory component.
C13_FilesInsideLocalDir ==
    /\ \A p \in Files : Below(p)
    /\ \A i \in DOMAIN tasks :
          /\ Below(TaskFile(i))
          /\ ~HasParentComponent(tasks[i].local_file_path)

====
